---- MODULE Spec2Model ----
(***************************************************************************)
(* A model of action-package-stats (src/unnamed/part_000): run() reads its *)
(* inputs, builds an Octokit client, walks the six package types in a      *)
(* fixed order, lists each type's packages, fetches every package's        *)
(* detail, folds the details into a per-type list (org-level) or a         *)
(* per-repository map (repo-level), writes the report to a file and sets   *)
(* the packageStats output.                                                *)
(*                                                                         *)
(* One action is one continuation of the async code: a request, its        *)
(* response, and the synchronous code that follows up to the next await.   *)
(* The registry and the file system are the environment: every response    *)
(* (a list, a detail, a thrown error) is chosen nondeterministically when  *)
(* the request is made, and recorded in the history variable registryLog.  *)
(***************************************************************************)
EXTENDS Integers, Sequences, FiniteSets, TLC

(***************************************************************************)
(* Bounds of the model                                                     *)
(***************************************************************************)
\* A run sees at most this many registry events that cost work: packages
\* returned by enumerations plus enumerations that throw.
MaxRegistryEvents == 2

\* The same, for the runs that look at processRepoLevel alone (SpecRepo).
MaxRepoEvents == 3

(***************************************************************************)
(* Program constants and input domains                                     *)
(***************************************************************************)
PackageTypes == <<"npm", "maven", "rubygems", "docker", "container", "nuget">>

DefaultMode == "org-level"

UnlinkedName == "unlinked packages"

AuthRequiredMessage == "Authentication is required. Please provide either a Personal Access Token (token) or GitHub App credentials (app-id, private-key, and installation-id)."

OrgFileName == "package-stats-org.json"

RepoFileName == "package-stats-repo.json"

\* core.getInput returns "" for an input that is not given.
NoInput == ""

\* packageInfo.data.version_count when the field is absent.
Undefined == -1

\* packageInfo.data.repository when the package is linked to no repository.
NoRepository == ""

\* Values of the mode input: absent, the two documented modes, a legacy one.
ModeInputs == {NoInput, "org-level", "repo-level", "simple"}

\* The four authentication inputs: every combination that createOctokit
\* rejects, and the two minimal ones it accepts (token alone, app triple alone).
AuthInputs ==
    {a \in [token : {NoInput, "ghp_pat"}, appId : {NoInput, "4711"},
            privateKey : {NoInput, "pem"}, installationId : {NoInput, "42"}] :
        \/ a.token = NoInput
        \/ (a.appId = NoInput /\ a.privateKey = NoInput /\ a.installationId = NoInput)}

\* Names the registry gives the packages of one enumeration, in order.
PackageNames == <<"a", "b", "c", "d">>

\* version_count values of a detail response.
VersionCounts == {Undefined, 3}

\* repository.full_name values of a detail response (owner/name).
Repositories == {"acme/api", "acme/web"}

\* Errors the file system can raise.
MkdirError == "EACCES: permission denied, mkdir 'output'"

WriteError == "ENOSPC: no space left on device, write"

VARIABLES
    token, appId, privateKey, installationId,   \* authentication inputs
    modeInput,                                  \* the mode input as given
    outputMode,                                 \* run: const outputMode
    octokit,                                    \* run: const octokit ("none", "pat", "app")
    pc,                                         \* where the run stands
    typeIdx,                                    \* index of packageType in packageTypes
    packages,                                   \* the enumerated packages of the type
    pkgIdx,                                     \* index of pkg in packages
    totalVersionsCount,                         \* processOrgLevel: let totalVersionsCount
    packageStats,                               \* processOrgLevel: const packageStats
    repoMap,                                    \* processRepoLevel: const repoMap
    output,                                     \* run: const output
    writeMode,                                  \* writeResultsToFile: parameter mode
    files,                                      \* files under ./output
    packageStatsOutput,                         \* value given to core.setOutput
    failedMessage,                              \* value given to core.setFailed
    registryLog,                                \* history: every request and its response
    fsLog,                                      \* history: every file-system call and its outcome
    registryBudget                              \* registry events the environment may spend

vars == <<token, appId, privateKey, installationId, modeInput, outputMode, octokit,
          pc, typeIdx, packages, pkgIdx, totalVersionsCount, packageStats, repoMap,
          output, writeMode, files, packageStatsOutput, failedMessage, registryLog,
          fsLog, registryBudget>>

(***************************************************************************)
(* Pure helpers                                                            *)
(***************************************************************************)
\* JavaScript's truthiness of a string.
Truthy(s) == s # ""

\* Mutant: the default is forgotten.
OrDefault_NoDefault(s, d) == s

\* core.getInput("mode") || "org-level"
OrDefault(s, d) == IF Truthy(s) THEN s ELSE d

\* packageInfo.data.version_count || 0
OrZero(v) == IF v = Undefined \/ v = 0 THEN 0 ELSE v

\* Mutant: the app branch does not look at installationId.
createOctokit_NoInstallationCheck(tok, app, key, inst) ==
    IF Truthy(tok) THEN "pat"
    ELSE IF Truthy(app) /\ Truthy(key) THEN "app"
    ELSE "throw"

\* createOctokit: the client it returns, or "throw".
createOctokit(tok, app, key, inst) ==
    IF Truthy(tok) THEN "pat"
    ELSE IF Truthy(app) /\ Truthy(key) /\ Truthy(inst) THEN "app"
    ELSE "throw"

\* run: if (outputMode === "org-level")
\* Mutant: the legacy mode name "simple" is taken for the org-level report.
TakesOrgPath_AcceptsLegacy(m) == m \in {"org-level", "simple"}

TakesOrgPath(m) == m = "org-level"

\* writeResultsToFile: const filename
FileName(m) == IF m = "repo-level" THEN RepoFileName ELSE OrgFileName

\* run: const output = { packages: packageStats } / { repositories: repoStats }
NoOutput == [shape |-> "none", entries |-> <<>>]

OrgOutput(stats) == [shape |-> "packages", entries |-> stats]

RepoOutput(stats) == [shape |-> "repositories", entries |-> stats]

\* Mutant: the total is overwritten by the last package's count (= for +=).
OrgAccumulate_Overwrite(total, detail) == OrZero(detail.version_count)

\* processOrgLevel: totalVersionsCount += packageInfo.data.version_count || 0
OrgAccumulate(total, detail) == total + OrZero(detail.version_count)

\* processOrgLevel: the entry pushed for a type.
TypeAggregate(packageType, pkgs, total) ==
    [type |-> packageType, total_package_count |-> Len(pkgs), versions_count |-> total]

\* Mutant: no sentinel, a package without repository is keyed by the first
\* repository name.
RepoKey_NoSentinel(repository) ==
    IF Truthy(repository) THEN repository ELSE "acme/api"

\* processRepoLevel: const repoName
RepoKey(repository) == IF Truthy(repository) THEN repository ELSE UnlinkedName

\* Map.has / Map.set of a new key / Map.get, the map kept in insertion order.
MapHas(m, k) == \E i \in DOMAIN m : m[i].name = k

MapIndex(m, k) == CHOOSE i \in DOMAIN m : m[i].name = k

NewRepoData(k) ==
    [name |-> k, total_package_count |-> 0, total_versions_count |-> 0, packages |-> <<>>]

EnsureRepo(m, k) == IF MapHas(m, k) THEN m ELSE Append(m, NewRepoData(k))

\* Mutant: find looks at a field the entries do not have and never matches.
HasTypeEntry_NeverMatches(ps, packageType) == FALSE

\* repoData.packages.find((p) => p.type === packageType): the first match.
HasTypeEntry(ps, packageType) == \E j \in DOMAIN ps : ps[j].type = packageType

TypeEntryIndex(ps, packageType) ==
    CHOOSE j \in DOMAIN ps :
        /\ ps[j].type = packageType
        /\ \A h \in 1..(j - 1) : ps[h].type # packageType

NewTypeEntry(packageType) == [type |-> packageType, package_count |-> 0, versions_count |-> 0]

EnsureTypeEntry(ps, packageType) ==
    IF HasTypeEntry(ps, packageType) THEN ps ELSE Append(ps, NewTypeEntry(packageType))

\* typeEntry.package_count += 1; typeEntry.versions_count += versionCount
BumpTypeEntry(e, versionCount) ==
    [e EXCEPT !.package_count = @ + 1, !.versions_count = @ + versionCount]

\* Mutant: the repository's package total is not incremented.
BumpRepoTotals_VersionsOnly(r, versionCount) ==
    [r EXCEPT !.total_versions_count = @ + versionCount]

\* repoData.total_package_count += 1; repoData.total_versions_count += versionCount
BumpRepoTotals(r, versionCount) ==
    [r EXCEPT !.total_package_count = @ + 1, !.total_versions_count = @ + versionCount]

\* Mutant: the updated repository is deleted from the map and set again, which
\* moves it behind the others.
FoldPackage_Reinserts(m, packageType, detail) ==
    LET versionCount == OrZero(detail.version_count)
        repoName == RepoKey(detail.repository)
        m1 == EnsureRepo(m, repoName)
        i == MapIndex(m1, repoName)
        ps == EnsureTypeEntry(m1[i].packages, packageType)
        j == TypeEntryIndex(ps, packageType)
        ps1 == [ps EXCEPT ![j] = BumpTypeEntry(ps[j], versionCount)]
        r == [BumpRepoTotals(m1[i], versionCount) EXCEPT !.packages = ps1]
    IN  [k \in DOMAIN m1 |-> IF k < i THEN m1[k] ELSE IF k < Len(m1) THEN m1[k + 1] ELSE r]

\* processRepoLevel: what one successfully fetched package does to repoMap.
FoldPackage(m, packageType, detail) ==
    LET versionCount == OrZero(detail.version_count)
        repoName == RepoKey(detail.repository)
        m1 == EnsureRepo(m, repoName)
        i == MapIndex(m1, repoName)
        ps == EnsureTypeEntry(m1[i].packages, packageType)
        j == TypeEntryIndex(ps, packageType)
        ps1 == [ps EXCEPT ![j] = BumpTypeEntry(ps[j], versionCount)]
    IN  [m1 EXCEPT ![i] = [BumpRepoTotals(m1[i], versionCount) EXCEPT !.packages = ps1]]

(***************************************************************************)
(* The environment's answers                                               *)
(***************************************************************************)
\* A detail response: version_count and repository of the package.
PackageDetails ==
    [version_count : VersionCounts, repository : Repositories \cup {NoRepository}]

\* processOrgLevel reads version_count alone: the responses it gets are told
\* apart by that field only.
OrgDetails == {d \in PackageDetails : d.repository = NoRepository}

\* The list an enumeration returns when it finds k packages.
PackageList(k) == SubSeq(PackageNames, 1, k)

ListEntry(packageType, ok, k) ==
    [req |-> "list", type |-> packageType, name |-> "", ok |-> ok, count |-> k,
     version_count |-> Undefined, repository |-> NoRepository]

DetailEntry(packageType, name, ok, detail) ==
    [req |-> "detail", type |-> packageType, name |-> name, ok |-> ok, count |-> 0,
     version_count |-> detail.version_count, repository |-> detail.repository]

NoDetail == [version_count |-> Undefined, repository |-> NoRepository]

RECURSIVE Spent(_)
\* Registry events a log has used up: packages listed plus failed enumerations.
Spent(l) ==
    IF l = <<>> THEN 0
    ELSE LET e == l[Len(l)]
         IN  Spent(SubSeq(l, 1, Len(l) - 1))
               + (IF e.req = "list" THEN (IF e.ok THEN e.count ELSE 1) ELSE 0)

(***************************************************************************)
(* Initial state: run() has been called, nothing has happened yet.         *)
(***************************************************************************)
NotStarted ==
    /\ outputMode = ""
    /\ octokit = "none"
    /\ pc = "start"
    /\ typeIdx = 1
    /\ packages = <<>>
    /\ pkgIdx = 1
    /\ totalVersionsCount = 0
    /\ packageStats = <<>>
    /\ repoMap = <<>>
    /\ output = NoOutput
    /\ writeMode = ""
    /\ files = {}
    /\ packageStatsOutput = <<>>
    /\ failedMessage = ""
    /\ registryLog = <<>>
    /\ fsLog = <<>>

Init ==
    /\ \E a \in AuthInputs :
          /\ token = a.token
          /\ appId = a.appId
          /\ privateKey = a.privateKey
          /\ installationId = a.installationId
    /\ modeInput \in ModeInputs
    /\ registryBudget = MaxRegistryEvents
    /\ NotStarted

\* run() called in repo-level mode with a token.
InitRepo ==
    /\ token = "ghp_pat"
    /\ appId = NoInput
    /\ privateKey = NoInput
    /\ installationId = NoInput
    /\ modeInput = "repo-level"
    /\ registryBudget = MaxRepoEvents
    /\ NotStarted

inputVars == <<token, appId, privateKey, installationId, modeInput, registryBudget>>

sinkVars == <<files, packageStatsOutput, failedMessage, fsLog>>

(***************************************************************************)
(* run(): lines 78-97                                                      *)
(***************************************************************************)
\* run reads its inputs; createOctokit throws, and the catch reports it.
RunAuthMissing ==
    /\ pc = "start"
    /\ createOctokit(token, appId, privateKey, installationId) = "throw"
    /\ outputMode' = OrDefault(modeInput, DefaultMode)
    /\ failedMessage' = AuthRequiredMessage
    /\ pc' = "failed"
    /\ UNCHANGED <<inputVars, octokit, typeIdx, packages, pkgIdx, totalVersionsCount,
                   packageStats, repoMap, output, writeMode, files, packageStatsOutput,
                   registryLog, fsLog>>

\* run reads its inputs, gets a client and enters the processing of its mode.
RunStart ==
    /\ pc = "start"
    /\ createOctokit(token, appId, privateKey, installationId) # "throw"
    /\ outputMode' = OrDefault(modeInput, DefaultMode)
    /\ octokit' = createOctokit(token, appId, privateKey, installationId)
    /\ pc' = IF TakesOrgPath(outputMode') THEN "org_list" ELSE "repo_list"
    /\ UNCHANGED <<inputVars, typeIdx, packages, pkgIdx, totalVersionsCount,
                   packageStats, repoMap, output, writeMode, sinkVars, registryLog>>

(***************************************************************************)
(* processOrgLevel: lines 138-189                                          *)
(***************************************************************************)
packageType == PackageTypes[typeIdx]

\* Room left for k more registry events.
Affordable(k) == Spent(registryLog) + k <= registryBudget

\* The for loop over packageTypes moves on; after the last type the function
\* returns and run builds the output and calls writeResultsToFile("org-level").
OrgNextType(stats) ==
    /\ typeIdx' = typeIdx + 1
    /\ packages' = <<>>
    /\ pkgIdx' = 1
    /\ IF typeIdx < Len(PackageTypes)
       THEN /\ pc' = "org_list"
            /\ UNCHANGED <<output, writeMode>>
       ELSE /\ pc' = "mkdir"
            /\ output' = OrgOutput(stats)
            /\ writeMode' = "org-level"

\* octokit.paginate throws: the outer catch logs it, next type.
OrgListThrows ==
    /\ pc = "org_list"
    /\ Affordable(1)
    /\ registryLog' = Append(registryLog, ListEntry(packageType, FALSE, 0))
    /\ OrgNextType(packageStats)
    /\ UNCHANGED <<inputVars, outputMode, octokit, totalVersionsCount, packageStats,
                   repoMap, sinkVars>>

\* Mutant: no "continue" for an empty list, the type gets an entry of zeros.
OrgListEmpty_Emits ==
    /\ pc = "org_list"
    /\ registryLog' = Append(registryLog, ListEntry(packageType, TRUE, 0))
    /\ packageStats' = Append(packageStats, TypeAggregate(packageType, <<>>, 0))
    /\ OrgNextType(packageStats')
    /\ UNCHANGED <<inputVars, outputMode, octokit, totalVersionsCount, repoMap, sinkVars>>

\* octokit.paginate returns no package: continue.
OrgListEmpty ==
    /\ pc = "org_list"
    /\ registryLog' = Append(registryLog, ListEntry(packageType, TRUE, 0))
    /\ OrgNextType(packageStats)
    /\ UNCHANGED <<inputVars, outputMode, octokit, totalVersionsCount, packageStats,
                   repoMap, sinkVars>>

\* octokit.paginate returns k packages: the inner loop starts.
OrgListFound ==
    /\ pc = "org_list"
    /\ \E k \in 1..Len(PackageNames) :
          /\ Affordable(k)
          /\ registryLog' = Append(registryLog, ListEntry(packageType, TRUE, k))
          /\ packages' = PackageList(k)
    /\ pkgIdx' = 1
    /\ totalVersionsCount' = 0
    /\ pc' = "org_detail"
    /\ UNCHANGED <<inputVars, outputMode, octokit, typeIdx, packageStats, repoMap,
                   output, writeMode, sinkVars>>

\* Mutant: a "break" ends the inner loop after the first package.
OrgNextPackage_StopsAfterFirst(total) ==
    /\ packageStats' = Append(packageStats, TypeAggregate(packageType, packages, total))
    /\ OrgNextType(packageStats')

\* Mutant: a type none of whose versions could be counted gets no entry.
OrgNextPackage_SkipsUncounted(total) ==
    IF pkgIdx < Len(packages)
    THEN /\ pkgIdx' = pkgIdx + 1
         /\ UNCHANGED <<typeIdx, packages, packageStats, pc, output, writeMode>>
    ELSE /\ packageStats' = IF total = 0 THEN packageStats
                            ELSE Append(packageStats,
                                        TypeAggregate(packageType, packages, total))
         /\ OrgNextType(packageStats')

\* The inner loop moves on; after the last package the type's entry is pushed.
OrgNextPackage(total) ==
    IF pkgIdx < Len(packages)
    THEN /\ pkgIdx' = pkgIdx + 1
         /\ UNCHANGED <<typeIdx, packages, packageStats, pc, output, writeMode>>
    ELSE /\ packageStats' = Append(packageStats, TypeAggregate(packageType, packages, total))
         /\ OrgNextType(packageStats')

\* octokit.request returns the package's detail.
OrgDetailOk ==
    /\ pc = "org_detail"
    /\ \E d \in OrgDetails :
          /\ registryLog' = Append(registryLog,
                                   DetailEntry(packageType, packages[pkgIdx], TRUE, d))
          /\ totalVersionsCount' = OrgAccumulate(totalVersionsCount, d)
    /\ OrgNextPackage(totalVersionsCount')
    /\ UNCHANGED <<inputVars, outputMode, octokit, repoMap, sinkVars>>

\* Mutant: no inner catch, and the outer one rethrows: run's catch reports it.
OrgDetailThrows_Propagates ==
    /\ pc = "org_detail"
    /\ registryLog' = Append(registryLog,
                             DetailEntry(packageType, packages[pkgIdx], FALSE, NoDetail))
    /\ failedMessage' = "Not Found"
    /\ pc' = "failed"
    /\ UNCHANGED <<inputVars, outputMode, octokit, typeIdx, packages, pkgIdx,
                   totalVersionsCount, packageStats, repoMap, output, writeMode, files,
                   packageStatsOutput, fsLog>>

\* octokit.request throws: the inner catch logs it, next package.
OrgDetailThrows ==
    /\ pc = "org_detail"
    /\ registryLog' = Append(registryLog,
                             DetailEntry(packageType, packages[pkgIdx], FALSE, NoDetail))
    /\ totalVersionsCount' = totalVersionsCount
    /\ OrgNextPackage(totalVersionsCount')
    /\ UNCHANGED <<inputVars, outputMode, octokit, repoMap, sinkVars>>

(***************************************************************************)
(* processRepoLevel: lines 192-269                                         *)
(***************************************************************************)
\* The for loop over packageTypes moves on; after the last type the function
\* returns and run builds the output and calls writeResultsToFile("repo-level").
RepoNextType(m) ==
    /\ typeIdx' = typeIdx + 1
    /\ packages' = <<>>
    /\ pkgIdx' = 1
    /\ IF typeIdx < Len(PackageTypes)
       THEN /\ pc' = "repo_list"
            /\ UNCHANGED <<output, writeMode>>
       ELSE /\ pc' = "mkdir"
            /\ output' = RepoOutput(m)
            /\ writeMode' = "repo-level"

\* Mutant: no outer catch, a failed enumeration reaches run's catch.
RepoListThrows_Aborts ==
    /\ pc = "repo_list"
    /\ Affordable(1)
    /\ registryLog' = Append(registryLog, ListEntry(packageType, FALSE, 0))
    /\ failedMessage' = "Bad credentials"
    /\ pc' = "failed"
    /\ UNCHANGED <<inputVars, outputMode, octokit, typeIdx, packages, pkgIdx,
                   totalVersionsCount, packageStats, repoMap, output, writeMode, files,
                   packageStatsOutput, fsLog>>

\* octokit.paginate throws: the outer catch logs it, next type.
RepoListThrows ==
    /\ pc = "repo_list"
    /\ Affordable(1)
    /\ registryLog' = Append(registryLog, ListEntry(packageType, FALSE, 0))
    /\ RepoNextType(repoMap)
    /\ UNCHANGED <<inputVars, outputMode, octokit, totalVersionsCount, packageStats,
                   repoMap, sinkVars>>

\* octokit.paginate returns no package: continue.
RepoListEmpty ==
    /\ pc = "repo_list"
    /\ registryLog' = Append(registryLog, ListEntry(packageType, TRUE, 0))
    /\ RepoNextType(repoMap)
    /\ UNCHANGED <<inputVars, outputMode, octokit, totalVersionsCount, packageStats,
                   repoMap, sinkVars>>

\* octokit.paginate returns k packages: the inner loop starts.
RepoListFound ==
    /\ pc = "repo_list"
    /\ \E k \in 1..Len(PackageNames) :
          /\ Affordable(k)
          /\ registryLog' = Append(registryLog, ListEntry(packageType, TRUE, k))
          /\ packages' = PackageList(k)
    /\ pkgIdx' = 1
    /\ pc' = "repo_detail"
    /\ UNCHANGED <<inputVars, outputMode, octokit, typeIdx, totalVersionsCount,
                   packageStats, repoMap, output, writeMode, sinkVars>>

\* The inner loop moves on; after the last package, the next type.
RepoNextPackage(m) ==
    IF pkgIdx < Len(packages)
    THEN /\ pkgIdx' = pkgIdx + 1
         /\ UNCHANGED <<typeIdx, packages, pc, output, writeMode>>
    ELSE RepoNextType(m)

\* octokit.request returns the package's detail: it is folded into repoMap.
RepoDetailOk ==
    /\ pc = "repo_detail"
    /\ \E d \in PackageDetails :
          /\ registryLog' = Append(registryLog,
                                   DetailEntry(packageType, packages[pkgIdx], TRUE, d))
          /\ repoMap' = FoldPackage(repoMap, packageType, d)
    /\ RepoNextPackage(repoMap')
    /\ UNCHANGED <<inputVars, outputMode, octokit, totalVersionsCount, packageStats,
                   sinkVars>>

\* Mutant: a package whose detail fetch failed is folded in as an empty detail.
RepoDetailThrows_Counted ==
    /\ pc = "repo_detail"
    /\ registryLog' = Append(registryLog,
                             DetailEntry(packageType, packages[pkgIdx], FALSE, NoDetail))
    /\ repoMap' = FoldPackage(repoMap, packageType, NoDetail)
    /\ RepoNextPackage(repoMap')
    /\ UNCHANGED <<inputVars, outputMode, octokit, totalVersionsCount, packageStats,
                   sinkVars>>

\* octokit.request throws: the inner catch logs it, next package.
RepoDetailThrows ==
    /\ pc = "repo_detail"
    /\ registryLog' = Append(registryLog,
                             DetailEntry(packageType, packages[pkgIdx], FALSE, NoDetail))
    /\ repoMap' = repoMap
    /\ RepoNextPackage(repoMap')
    /\ UNCHANGED <<inputVars, outputMode, octokit, totalVersionsCount, packageStats,
                   sinkVars>>

(***************************************************************************)
(* writeResultsToFile (lines 272-294) and the end of run (lines 110, 126,  *)
(* 130-134)                                                                *)
(***************************************************************************)
FsEntry(call, ok) == [call |-> call, ok |-> ok]

\* fs.mkdir succeeds (the directory exists now).
MkdirOk ==
    /\ pc = "mkdir"
    /\ pc' = "writeFile"
    /\ fsLog' = Append(fsLog, FsEntry("mkdir", TRUE))
    /\ UNCHANGED <<inputVars, outputMode, octokit, typeIdx, packages, pkgIdx,
                   totalVersionsCount, packageStats, repoMap, output, writeMode,
                   files, packageStatsOutput, failedMessage, registryLog>>

\* fs.mkdir throws: rethrown, caught by run, reported with core.setFailed.
MkdirThrows ==
    /\ pc = "mkdir"
    /\ failedMessage' = MkdirError
    /\ fsLog' = Append(fsLog, FsEntry("mkdir", FALSE))
    /\ pc' = "failed"
    /\ UNCHANGED <<inputVars, outputMode, octokit, typeIdx, packages, pkgIdx,
                   totalVersionsCount, packageStats, repoMap, output, writeMode,
                   files, packageStatsOutput, registryLog>>

\* The file written at a path with a content (an existing one is replaced).
WriteFileTo(fs, name, content) ==
    {f \in fs : f.name # name} \cup {[name |-> name, content |-> content]}

\* fs.writeFile succeeds; back in run, core.setOutput gets the same output.
\* JSON.stringify is not modelled: file and output hold the object itself.
WriteFileOk ==
    /\ pc = "writeFile"
    /\ files' = WriteFileTo(files, FileName(writeMode), output)
    /\ packageStatsOutput' = <<output>>
    /\ fsLog' = Append(fsLog, FsEntry("writeFile", TRUE))
    /\ pc' = "done"
    /\ UNCHANGED <<inputVars, outputMode, octokit, typeIdx, packages, pkgIdx,
                   totalVersionsCount, packageStats, repoMap, output, writeMode,
                   failedMessage, registryLog>>

\* fs.writeFile throws: caught by run, reported with core.setFailed.
WriteFileThrows ==
    /\ pc = "writeFile"
    /\ failedMessage' = WriteError
    /\ fsLog' = Append(fsLog, FsEntry("writeFile", FALSE))
    /\ pc' = "failed"
    /\ UNCHANGED <<inputVars, outputMode, octokit, typeIdx, packages, pkgIdx,
                   totalVersionsCount, packageStats, repoMap, output, writeMode,
                   files, packageStatsOutput, registryLog>>

Next ==
    \/ RunAuthMissing
    \/ RunStart
    \/ OrgListThrows
    \/ OrgListEmpty
    \/ OrgListFound
    \/ OrgDetailOk
    \/ OrgDetailThrows
    \/ RepoListThrows
    \/ RepoListEmpty
    \/ RepoListFound
    \/ RepoDetailOk
    \/ RepoDetailThrows
    \/ MkdirOk
    \/ MkdirThrows
    \/ WriteFileOk
    \/ WriteFileThrows

Spec == Init /\ [][Next]_vars

\* processRepoLevel alone: from run's start to the output it returns.
NextRepo ==
    \/ RunStart
    \/ RepoListThrows
    \/ RepoListEmpty
    \/ RepoListFound
    \/ RepoDetailOk
    \/ RepoDetailThrows

SpecRepo == InitRepo /\ [][NextRepo]_vars

(***************************************************************************)
(* What the registry said, read off the history                            *)
(***************************************************************************)
RECURSIVE SumSeq(_)
SumSeq(q) == IF q = <<>> THEN 0 ELSE q[1] + SumSeq(Tail(q))

\* The version_count a response carries, an absent one counting as 0.
Counted(e) == IF e.version_count = Undefined THEN 0 ELSE e.version_count

\* The repository key a response belongs to.
KeyOf(e) == IF e.repository = NoRepository THEN "unlinked packages" ELSE e.repository

IsList(e) == e.req = "list"

IsFetched(e) == e.req = "detail" /\ e.ok

\* Number of history entries satisfying P, and the version counts they carry.
CountLog(P(_)) ==
    Cardinality({i \in DOMAIN registryLog : P(registryLog[i])})

VersionsLog(P(_)) ==
    SumSeq([i \in DOMAIN registryLog |->
              IF P(registryLog[i]) THEN Counted(registryLog[i]) ELSE 0])

\* The enumeration of type t succeeded and returned at least one package.
ListedSome(t) ==
    \E i \in DOMAIN registryLog :
        LET e == registryLog[i] IN IsList(e) /\ e.type = t /\ e.ok /\ e.count > 0

\* Number of packages the enumeration of type t returned.
ListedCount(t) ==
    SumSeq([i \in DOMAIN registryLog |->
              LET e == registryLog[i]
              IN  IF IsList(e) /\ e.type = t /\ e.ok THEN e.count ELSE 0])

\* The run is in (or past) the org-level / repo-level processing.
OrgRun == octokit # "none" /\ outputMode = "org-level"

RepoRun == octokit # "none" /\ outputMode # "org-level"

\* The processing loops are over: the report is complete.
Processed == pc \in {"mkdir", "writeFile", "done"} \/ (pc = "failed" /\ octokit # "none")

(***************************************************************************)
(* C1: org-level, every TypeAggregate's versions_count is the sum of the   *)
(* version_count (absent = 0) of exactly the successfully fetched packages *)
(* of its type; so the versions_count of a finished report add up to the   *)
(* version_count of all successfully fetched packages, every package       *)
(* counted under one type only (no two aggregates share a type).           *)
(***************************************************************************)
C1_OrgVersionsCount ==
    OrgRun =>
      /\ \A i \in DOMAIN packageStats :
            LET Mine(e) == IsFetched(e) /\ e.type = packageStats[i].type
            IN  packageStats[i].versions_count = VersionsLog(Mine)
      /\ \A i, j \in DOMAIN packageStats :
            packageStats[i].type = packageStats[j].type => i = j
      /\ Processed =>
            SumSeq([i \in DOMAIN packageStats |-> packageStats[i].versions_count])
              = VersionsLog(IsFetched)

\* npm has two packages of 3 versions each, the other types have none.
C1_Witness ==
    /\ pc = "done"
    /\ output = [shape |-> "packages",
                 entries |-> <<[type |-> "npm", total_package_count |-> 2,
                                versions_count |-> 6]>>]
    /\ CountLog(IsFetched) = 2

(***************************************************************************)
(* C2: org-level, a TypeAggregate's total_package_count is the number of   *)
(* packages the enumeration of its type returned, whichever detail fetches *)
(* failed; failed packages add nothing to versions_count; a type whose     *)
(* detail fetches all failed still gets its entry, with versions_count 0.  *)
(***************************************************************************)
C2_OrgCountsEnumerated ==
    OrgRun =>
      /\ \A i \in DOMAIN packageStats :
            LET t == packageStats[i].type
                Asked(e) == e.req = "detail" /\ e.type = t
                Got(e) == IsFetched(e) /\ e.type = t
            IN  /\ packageStats[i].total_package_count = ListedCount(t)
                /\ packageStats[i].total_package_count = CountLog(Asked)
                /\ CountLog(Got) = 0 => packageStats[i].versions_count = 0
                /\ packageStats[i].versions_count = VersionsLog(Got)
      /\ \A k \in DOMAIN PackageTypes :
            (k < typeIdx /\ ListedSome(PackageTypes[k])) =>
                \E i \in DOMAIN packageStats : packageStats[i].type = PackageTypes[k]

\* Both detail fetches of a type failed, and its entry is in the report.
C2_Witness ==
    /\ pc = "done"
    /\ OrgRun
    /\ \E i \in DOMAIN packageStats :
          /\ packageStats[i].total_package_count = 2
          /\ packageStats[i].versions_count = 0
    /\ CountLog(IsFetched) = 0
    /\ CountLog(LAMBDA e : e.req = "detail" /\ ~e.ok) = 2

(***************************************************************************)
(* What the repo-level map holds                                           *)
(***************************************************************************)
RepoKeys == Repositories \cup {"unlinked packages"}

\* total_package_count of all aggregates named k.
TotalPackages(k) ==
    SumSeq([i \in DOMAIN repoMap |->
              IF repoMap[i].name = k THEN repoMap[i].total_package_count ELSE 0])

C4_RepoTotalsMatchBreakdown ==
    \A i \in DOMAIN repoMap :
        /\ repoMap[i].total_package_count
             = SumSeq([j \in DOMAIN repoMap[i].packages |->
                         repoMap[i].packages[j].package_count])
        /\ repoMap[i].total_versions_count
             = SumSeq([j \in DOMAIN repoMap[i].packages |->
                         repoMap[i].packages[j].versions_count])

\* In the middle of a run: an aggregate with two breakdown entries.
C4_Witness ==
    /\ pc = "repo_list"
    /\ \E i \in DOMAIN repoMap :
          /\ Len(repoMap[i].packages) = 2
          /\ repoMap[i].total_package_count = 2
          /\ repoMap[i].total_versions_count = 6

C6_EntryIffPackagesListed ==
    /\ Processed => typeIdx = Len(PackageTypes) + 1
    /\ OrgRun =>
          /\ \A i, j \in DOMAIN packageStats :
                packageStats[i].type = packageStats[j].type => i = j
          /\ \A k \in DOMAIN PackageTypes :
                (\E i \in DOMAIN packageStats : packageStats[i].type = PackageTypes[k])
                  <=> (k < typeIdx /\ ListedSome(PackageTypes[k]))
    /\ RepoRun =>
          \A i \in DOMAIN repoMap : \A j \in DOMAIN repoMap[i].packages :
              ListedSome(repoMap[i].packages[j].type)

\* A finished org-level report with one entry, one enumeration having
\* failed and the four others having returned nothing.
C6_Witness ==
    /\ pc = "done"
    /\ OrgRun
    /\ Len(packageStats) = 1
    /\ CountLog(LAMBDA e : IsList(e) /\ ~e.ok) = 1
    /\ CountLog(LAMBDA e : IsList(e) /\ e.ok /\ e.count = 0) = 4

(***************************************************************************)
(* C7: an enumeration that fails leaves the run exactly where an           *)
(* enumeration returning an empty list leaves it (next type, aggregates    *)
(* untouched, nothing reported as failed), so what follows is the same;    *)
(* and once the processing is over every one of the six types has been     *)
(* enumerated, in the fixed order, whichever enumerations failed.          *)
(***************************************************************************)
\* This step is an enumeration that threw / that returned an empty list.
ListStep(ok) ==
    /\ Len(registryLog') = Len(registryLog) + 1
    /\ IsList(registryLog'[Len(registryLog')])
    /\ registryLog'[Len(registryLog')].ok = ok
    /\ registryLog'[Len(registryLog')].count = 0

\* The program after a type that contributes no package.
AfterNoPackages ==
    /\ typeIdx' = typeIdx + 1
    /\ packages' = <<>> /\ pkgIdx' = 1
    /\ UNCHANGED <<totalVersionsCount, packageStats, repoMap, files, packageStatsOutput,
                   failedMessage>>
    /\ IF typeIdx < Len(PackageTypes)
       THEN UNCHANGED <<pc, output, writeMode>>
       ELSE /\ pc' = "mkdir"
            /\ output' = IF pc = "org_list" THEN [shape |-> "packages", entries |-> packageStats]
                         ELSE [shape |-> "repositories", entries |-> repoMap]
            /\ writeMode' = IF pc = "org_list" THEN "org-level" ELSE "repo-level"

ListedInOrder ==
    LET lists == SelectSeq(registryLog, IsList)
    IN  /\ Len(lists) = Len(PackageTypes)
        /\ \A k \in DOMAIN lists : lists[k].type = PackageTypes[k]

C7_FailedTypeIsSkipped ==
    /\ [](Processed => ListedInOrder)
    /\ [][(ListStep(FALSE) => AfterNoPackages) /\ (ListStep(TRUE) => AfterNoPackages)]_vars

\* The first enumeration failed and a later type is in the finished report.
C7_Witness ==
    /\ pc = "done"
    /\ ~registryLog[1].ok
    /\ \/ Len(packageStats) = 1 /\ packageStats[1].type # PackageTypes[1]
       \/ Len(repoMap) = 1 /\ repoMap[1].packages[1].type # PackageTypes[1]

(***************************************************************************)
(* C8: without a token and without the complete app triple, the run does   *)
(* nothing but fail with the authentication message: no request is made,   *)
(* no file-system call, no file written, no packageStats output set.       *)
(***************************************************************************)
AuthMissing ==
    /\ token = ""
    /\ (appId = "" \/ privateKey = "" \/ installationId = "")

C8_AuthMissingAborts ==
    AuthMissing =>
      /\ pc \in {"start", "failed"}
      /\ pc = "start" => failedMessage = ""
      /\ pc = "failed" =>
            failedMessage = "Authentication is required. Please provide either a Personal Access Token (token) or GitHub App credentials (app-id, private-key, and installation-id)."
      /\ registryLog = <<>>
      /\ fsLog = <<>>
      /\ files = {}
      /\ packageStatsOutput = <<>>
      /\ octokit = "none"

\* The run has failed on an app triple that lacks the installation id.
C8_Witness ==
    /\ pc = "failed"
    /\ token = "" /\ appId # "" /\ privateKey # "" /\ installationId = ""

(***************************************************************************)
(* C9: the run is failed (core.setFailed called, packageStats not set) if  *)
(* and only if the authentication inputs were missing or fs.mkdir or       *)
(* fs.writeFile threw; failed enumerations and detail fetches never stop   *)
(* the run or fail it, and a run whose file was written is done, with the  *)
(* report in the file and in the packageStats output and no failure.       *)
(***************************************************************************)
FsThrew == \E i \in DOMAIN fsLog : ~fsLog[i].ok

FileWritten == \E i \in DOMAIN fsLog : fsLog[i].call = "writeFile" /\ fsLog[i].ok

C9_OnlyConfigAndOutputErrorsFail ==
    /\ pc = "failed" <=> ((AuthMissing /\ pc # "start") \/ FsThrew)
    /\ failedMessage # "" <=> pc = "failed"
    /\ pc = "failed" => packageStatsOutput = <<>>
    /\ pc = "done" <=> FileWritten
    /\ pc = "done" =>
          /\ packageStatsOutput = <<output>>
          /\ \E f \in files : f.content = output
          /\ output.shape # "none"
    /\ pc \notin {"done", "failed"} => ENABLED Next

\* A finished run that met a failed enumeration and a failed detail fetch.
C9_Witness ==
    /\ pc = "done"
    /\ failedMessage = ""
    /\ packageStatsOutput # <<>>
    /\ CountLog(LAMBDA e : IsList(e) /\ ~e.ok) = 1
    /\ CountLog(LAMBDA e : e.req = "detail" /\ ~e.ok) = 1

(***************************************************************************)
(* C10: a run writes one file at most, and a finished run exactly one:     *)
(* { packages } in package-stats-org.json when mode is "org-level" or      *)
(* empty, { repositories } in package-stats-repo.json when mode is         *)
(* "repo-level"; shape and file name always go together, and the           *)
(* packageStats output has the shape of the file.                          *)
(***************************************************************************)
OrgPair(f) ==
    /\ f.name = "package-stats-org.json"
    /\ f.content = [shape |-> "packages", entries |-> packageStats]

RepoPair(f) ==
    /\ f.name = "package-stats-repo.json"
    /\ f.content = [shape |-> "repositories", entries |-> repoMap]

C10_OneShapePerMode ==
    /\ Cardinality(files) <= 1
    /\ pc = "done" => Cardinality(files) = 1
    /\ \A f \in files :
          /\ OrgPair(f) \/ RepoPair(f)
          /\ modeInput \in {"", "org-level"} => OrgPair(f)
          /\ modeInput = "repo-level" => RepoPair(f)
          /\ packageStatsOutput = <<f.content>>
    /\ output.shape # "none" =>
          /\ modeInput \in {"", "org-level"} => output.shape = "packages"
          /\ modeInput = "repo-level" => output.shape = "repositories"

\* No mode given: the finished run has written the org-level file.
C10_Witness ==
    /\ pc = "done"
    /\ modeInput = ""
    /\ \E f \in files : OrgPair(f) /\ Len(f.content.entries) = 2

(***************************************************************************)
(* C11: repo-level, the repositories are listed in the order in which the  *)
(* first successfully fetched package of each repository key was           *)
(* processed, and within a repository the breakdown entries in the order   *)
(* in which its package types were first met; a later package only         *)
(* extends these orders, it never reorders what is there; the output holds *)
(* the map in that order.                                                  *)
(***************************************************************************)
RECURSIVE FirstSeen(_)
\* The elements of a sequence, each at its first occurrence only.
FirstSeen(q) ==
    IF q = <<>> THEN <<>>
    ELSE LET r == FirstSeen(SubSeq(q, 1, Len(q) - 1))
             x == q[Len(q)]
         IN  IF \E i \in DOMAIN r : r[i] = x THEN r ELSE Append(r, x)

IsPrefix(p, q) == Len(p) <= Len(q) /\ \A i \in DOMAIN p : p[i] = q[i]

FetchedLog == SelectSeq(registryLog, IsFetched)

RepoNames(m) == [i \in DOMAIN m |-> m[i].name]

EntryTypes(r) == [j \in DOMAIN r.packages |-> r.packages[j].type]

C11_InFirstEncounteredOrder ==
    RepoRun =>
      /\ RepoNames(repoMap)
           = FirstSeen([n \in DOMAIN FetchedLog |-> KeyOf(FetchedLog[n])])
      /\ \A i \in DOMAIN repoMap :
            LET Mine(e) == KeyOf(e) = repoMap[i].name
                mine == SelectSeq(FetchedLog, Mine)
            IN  EntryTypes(repoMap[i]) = FirstSeen([n \in DOMAIN mine |-> mine[n].type])
      /\ output.shape = "repositories" => output.entries = repoMap

C11_OrderOnlyGrows ==
    /\ []C11_InFirstEncounteredOrder
    /\ [][/\ IsPrefix(RepoNames(repoMap), RepoNames(repoMap'))
          /\ \A i \in DOMAIN repoMap :
                IsPrefix(EntryTypes(repoMap[i]), EntryTypes(repoMap'[i]))]_vars

\* Three packages fetched, of a first repository, of a second one and of the
\* first one again, under two types: the first repository is still listed
\* first, with its two types in the order met.
C11_Witness ==
    /\ pc = "mkdir"
    /\ Len(FetchedLog) = 3
    /\ KeyOf(FetchedLog[1]) = KeyOf(FetchedLog[3])
    /\ KeyOf(FetchedLog[1]) # KeyOf(FetchedLog[2])
    /\ FetchedLog[1].type # FetchedLog[3].type
    /\ output.shape = "repositories"
    /\ Len(output.entries) = 2
    /\ output.entries[1].name = KeyOf(FetchedLog[1])
    /\ EntryTypes(output.entries[1]) = <<FetchedLog[1].type, FetchedLog[3].type>>

Owed(l) == IF l.ok THEN l.count ELSE 0

\* Positions of the enumerations among the first n requests.
ListsUpTo(n) == {m \in 1..n : IsList(registryLog[m])}

Latest(S) == CHOOSE m \in S : \A h \in S : h <= m

SerialInOrder ==
    \A n \in DOMAIN registryLog :
       LET e == registryLog[n]
           lists == ListsUpTo(n)
       IN  /\ lists # {}
           /\ IF IsList(e)
              THEN /\ Cardinality(lists) <= Len(PackageTypes)
                   /\ e.type = PackageTypes[Cardinality(lists)]
                   /\ n > 1 => n - 1 - Latest(lists \ {n})
                                  = Owed(registryLog[Latest(lists \ {n})])
              ELSE LET m == Latest(lists)
                   IN  /\ n - m <= Owed(registryLog[m])
                       /\ e.type = registryLog[m].type
                       /\ e.name = PackageNames[n - m]

\* All six enumerations made and the last one followed by all its fetches.
RequestsOver ==
    /\ ListedInOrder
    /\ LET m == Latest(ListsUpTo(Len(registryLog)))
       IN  Len(registryLog) - m = Owed(registryLog[m])

WriterOnce ==
    /\ fsLog \in {<<>>, <<FsEntry("mkdir", TRUE)>>, <<FsEntry("mkdir", FALSE)>>,
                  <<FsEntry("mkdir", TRUE), FsEntry("writeFile", TRUE)>>,
                  <<FsEntry("mkdir", TRUE), FsEntry("writeFile", FALSE)>>}
    /\ pc = "mkdir" => fsLog = <<>>
    /\ pc = "writeFile" => fsLog = <<FsEntry("mkdir", TRUE)>>
    /\ pc = "done" => fsLog = <<FsEntry("mkdir", TRUE), FsEntry("writeFile", TRUE)>>
    /\ (pc = "failed" /\ octokit # "none") => fsLog # <<>>
    /\ (pc \in {"mkdir", "writeFile", "done"} \/ fsLog # <<>>) => RequestsOver
    /\ pc \in {"start", "org_list", "org_detail", "repo_list", "repo_detail"} =>
          fsLog = <<>>
    /\ packageStatsOutput # <<>> => FileWritten

OneAtATime ==
    /\ IsPrefix(registryLog, registryLog')
    /\ IsPrefix(fsLog, fsLog')
    /\ Len(registryLog') + Len(fsLog') <= Len(registryLog) + Len(fsLog) + 1
    /\ (pc \in {"mkdir", "writeFile", "done", "failed"} \/ fsLog' # <<>>) =>
          registryLog' = registryLog
    /\ packageStatsOutput' # packageStatsOutput =>
          /\ fsLog' = Append(fsLog, FsEntry("writeFile", TRUE))
          /\ packageStatsOutput' = <<output>>

C13_SerialThenWrittenOnce ==
    /\ [](SerialInOrder /\ WriterOnce)
    /\ [][OneAtATime]_vars

\* A finished run in which a type other than the last listed two packages:
\* both were fetched before the next type was enumerated.
C13_Witness ==
    /\ pc = "done"
    /\ packageStatsOutput # <<>>
    /\ \E n \in DOMAIN registryLog :
          /\ IsList(registryLog[n]) /\ registryLog[n].count = 2
          /\ n + 3 \in DOMAIN registryLog
          /\ ~IsList(registryLog[n + 1]) /\ ~IsList(registryLog[n + 2])
          /\ IsList(registryLog[n + 3])

(***************************************************************************)
(* C14: the mode input is not validated.  Any value but "org-level" and    *)
(* the empty one, "simple" included, takes the repo-level path and gives   *)
(* { repositories } in package-stats-repo.json; the org-level path is      *)
(* taken only for "org-level" or no value; and no mode value fails the     *)
(* run: a run with authentication inputs gets past the start whatever the  *)
(* mode, and fails only if the file system threw.                          *)
(***************************************************************************)
OrgModeInput == modeInput \in {"", "org-level"}

OnOrgPath ==
    /\ pc \notin {"repo_list", "repo_detail"}
    /\ repoMap = <<>>
    /\ writeMode \in {"", "org-level"}
    /\ output.shape \in {"none", "packages"}
    /\ \A f \in files : OrgPair(f)

OnRepoPath ==
    /\ pc \notin {"org_list", "org_detail"}
    /\ packageStats = <<>>
    /\ writeMode \in {"", "repo-level"}
    /\ output.shape \in {"none", "repositories"}
    /\ \A f \in files : RepoPair(f)

====
